---- MODULE Spec2Model ----
(***************************************************************************)
(* A model of streamlit_app.py: the CVG identifier, the two-format date    *)
(* parser, select_best_cvgs (the series ranker), process_data (the         *)
(* resample-merge engine) and the reruns of main() over st.session_state.  *)
(*                                                                         *)
(* Representation.                                                         *)
(*   text          a sequence of one-character strings ("_" is the CVG     *)
(*                 delimiter); the empty sequence stands for None          *)
(*   numeric cell  <<v>> for the number v, <<>> for NaN / pd.NA            *)
(*   Date cell     [kind |-> "str", f |-> <<a, b, c>>] for the text        *)
(*                 "a-b-c", [kind |-> "Timestamp", f |-> <<days>>] for a   *)
(*                 parsed midnight timestamp (days since 1970-01-01),      *)
(*                 [kind |-> "NaT", f |-> <<>>] for pd.NaT                 *)
(*   DataFrame     [isNone |-> BOOLEAN, cols |-> column names,             *)
(*                  rows |-> sequence of records]                          *)
(*   commodity row a record with a field reps: the row stands for a run of *)
(*                 reps identical consecutive rows of the CSV, so that the *)
(*                 500-record threshold is reachable with few records      *)
(***************************************************************************)
EXTENDS Integers, Sequences, FiniteSets, TLC

VARIABLES
    commodity_file,  \* rows of the uploaded commodity CSV (never written)
    weather_file,    \* rows of the uploaded weather CSV (never written)
    commodity_data,  \* st.session_state.commodity_data, the df the core is handed
    weather_data,    \* st.session_state.weather_data, the weather_df the core is handed
    session,         \* st.session_state: weekly_data, monthly_data, processed, selected_cvg
    now,             \* pd.Timestamp.now(): [y, m, d, tod], tod = 1 when past midnight
    cvg_stats,       \* select_best_cvgs' local cvg_stats at line 39, one frame per commodity
    call,            \* the last call of the core: [op, arg, result]
    prev_call,       \* the call before it
    screen           \* what the last run of main() rendered

vars == <<commodity_file, weather_file, commodity_data, weather_data, session,
          now, cvg_stats, call, prev_call, screen>>

(***************************************************************************)
(* Bounds of the model.                                                    *)
(***************************************************************************)
MaxFieldLen == 1

MaxRuns == 3

MaxRows == 2

MaxWeather == 2

MaxAppRows == 2

(***************************************************************************)
(* Generic helpers.                                                        *)
(***************************************************************************)
Range(s) == {s[i] : i \in 1..Len(s)}

SeqsUpTo(S, k) == UNION {[1..i -> S] : i \in 0..k}

Min2(a, b) == IF a <= b THEN a ELSE b

NA == <<>>

None == <<>>

NoFrame == [isNone |-> TRUE, cols |-> <<>>, rows |-> <<>>]

Frame(cols, rows) == [isNone |-> FALSE, cols |-> cols, rows |-> rows]

NaT == [kind |-> "NaT", f |-> <<>>]

Timestamp(days) == [kind |-> "Timestamp", f |-> <<days>>]

DateText(a, b, c) == [kind |-> "str", f |-> <<a, b, c>>]

(***************************************************************************)
(* The proleptic Gregorian calendar behind pd.to_datetime.                 *)
(***************************************************************************)
IsLeap(y) == (y % 4 = 0 /\ y % 100 # 0) \/ y % 400 = 0

DaysInMonth(y, m) ==
    IF m = 2 THEN (IF IsLeap(y) THEN 29 ELSE 28)
    ELSE IF m \in {4, 6, 9, 11} THEN 30 ELSE 31

ValidDate(y, m, d) ==
    /\ y >= 1000 /\ y <= 9999
    /\ m >= 1 /\ m <= 12
    /\ d >= 1 /\ d <= DaysInMonth(y, m)

\* days since 1970-01-01 of the civil date y-m-d
DaysFromCivil(y, m, d) ==
    LET yy  == IF m <= 2 THEN y - 1 ELSE y
        era == yy \div 400
        yoe == yy - era * 400
        mp  == (m + 9) % 12
        doy == (153 * mp + 2) \div 5 + d - 1
        doe == yoe * 365 + yoe \div 4 - yoe \div 100 + doy
    IN  era * 146097 + doe - 719468

\* the civil date <<y, m, d>> of a day number
CivilFromDays(z) ==
    LET zz  == z + 719468
        era == zz \div 146097
        doe == zz - era * 146097
        yoe == (doe - doe \div 1460 + doe \div 36524 - doe \div 146096) \div 365
        doy == doe - (365 * yoe + yoe \div 4 - yoe \div 100)
        mp  == (5 * doy + 2) \div 153
        d   == doy - (153 * mp + 2) \div 5 + 1
        m   == IF mp < 10 THEN mp + 3 ELSE mp - 9
        y   == yoe + era * 400 + (IF m <= 2 THEN 1 ELSE 0)
    IN  <<y, m, d>>

(***************************************************************************)
(* create_cvg_identifier (lines 7-9).                                      *)
(***************************************************************************)
create_cvg_identifier_nodelim(row) ==
    row.Commodity \o <<"_">> \o row.Variety \o row.Grade \o <<"_">> \o row.Market

create_cvg_identifier(row) ==
    row.Commodity \o <<"_">> \o row.Variety \o <<"_">> \o row.Grade
                  \o <<"_">> \o row.Market

\* main, line 115: commodity_data['CVG'] = commodity_data.apply(create_cvg_identifier, axis=1)
WithCVG(row) ==
    [Commodity |-> row.Commodity, Variety |-> row.Variety, Grade |-> row.Grade,
     Market |-> row.Market, Date |-> row.Date, Modal |-> row.Modal,
     Arrivals |-> row.Arrivals, reps |-> row.reps,
     CVG |-> create_cvg_identifier(row)]

CommodityColumns ==
    <<"Commodity", "Variety", "Grade", "Market", "Date", "Modal", "Arrivals", "CVG">>

\* main, lines 113-115: pd.read_csv(commodity_file) and the CVG column
read_commodity(file) ==
    Frame(CommodityColumns, [i \in 1..Len(file) |-> WithCVG(file[i])])

(***************************************************************************)
(* parse_mixed_dates (lines 12-19).                                        *)
(***************************************************************************)
\* pd.to_datetime(text, format="%Y-%m-%d") succeeds
ParsesISO(f) == Len(f) = 3 /\ ValidDate(f[1], f[2], f[3])

\* pd.to_datetime(text, format="%d-%m-%Y") succeeds
ParsesDayFirst(f) == Len(f) = 3 /\ ValidDate(f[3], f[2], f[1])

parse_mixed_dates(date) ==
    IF date.kind # "str" THEN date         \* a Timestamp or NaT is returned as it is
    ELSE IF ParsesISO(date.f)
         THEN Timestamp(DaysFromCivil(date.f[1], date.f[2], date.f[3]))
         ELSE IF ParsesDayFirst(date.f)
              THEN Timestamp(DaysFromCivil(date.f[3], date.f[2], date.f[1]))
              ELSE NaT

(***************************************************************************)
(* select_best_cvgs (lines 21-50).                                         *)
(***************************************************************************)
RECURSIVE UniquePrefix(_, _)
\* the distinct values of s[1..k] in the order they first appear (Series.unique)
UniquePrefix(s, k) ==
    IF k = 0 THEN <<>>
    ELSE LET u == UniquePrefix(s, k - 1)
         IN  IF s[k] \in Range(u) THEN u ELSE Append(u, s[k])

unique(s) == UniquePrefix(s, Len(s))

Code(c) == CASE c = "A" -> 65 [] c = "B" -> 66 [] c = "_" -> 95
             [] c = "a" -> 97 [] c = "b" -> 98 [] c = "g" -> 103 [] c = "m" -> 109
             [] c = "x" -> 120 [] c = "y" -> 121

RECURSIVE StrLess(_, _)
\* Python's str ordering: code point by code point, a proper prefix first
StrLess(s, t) ==
    IF t = <<>> THEN FALSE
    ELSE IF s = <<>> THEN TRUE
    ELSE IF s[1] # t[1] THEN Code(s[1]) < Code(t[1])
    ELSE StrLess(Tail(s), Tail(t))

RECURSIVE SortedKeys(_)
\* the group keys of groupby('CVG') (sort=True): ascending
SortedKeys(S) ==
    IF S = {} THEN <<>>
    ELSE LET k == CHOOSE x \in S : \A z \in S \ {x} : StrLess(x, z)
         IN  <<k>> \o SortedKeys(S \ {k})

RECURSIVE SumOver(_, _)
\* the sum of w[i] over the indices i in I
SumOver(w, I) ==
    IF I = {} THEN 0
    ELSE LET i == CHOOSE x \in I : TRUE IN w[i] + SumOver(w, I \ {i})

\* line 23: df['Date'] = df['Date'].apply(parse_mixed_dates), in place
ParseDateColumn(rows) ==
    [i \in 1..Len(rows) |-> [rows[i] EXCEPT !.Date = parse_mixed_dates(rows[i].Date)]]

\* 'Modal': 'count' of one group: its rows with Modal present
CountModal_dated(rows, G) ==
    SumOver([i \in 1..Len(rows) |-> rows[i].reps],
            {i \in G : rows[i].Modal # NA /\ rows[i].Date.kind = "Timestamp"})

CountModal(rows, G) ==
    SumOver([i \in 1..Len(rows) |-> rows[i].reps], {i \in G : rows[i].Modal # NA})

\* 'Date': 'count' of one group: its rows with a Date that is not NaT
CountDate(rows, G) ==
    SumOver([i \in 1..Len(rows) |-> rows[i].reps],
            {i \in G : rows[i].Date.kind = "Timestamp"})

\* 'Date': 'min' and 'max' of one group, NaT when no Date of it parsed
MinDate(rows, G) ==
    LET D == {rows[i].Date.f[1] : i \in {j \in G : rows[j].Date.kind = "Timestamp"}}
    IN  IF D = {} THEN NaT ELSE Timestamp(CHOOSE d \in D : \A e \in D : d <= e)

MaxDate(rows, G) ==
    LET D == {rows[i].Date.f[1] : i \in {j \in G : rows[j].Date.kind = "Timestamp"}}
    IN  IF D = {} THEN NaT ELSE Timestamp(CHOOSE d \in D : \A e \in D : d >= e)

\* lines 37-39: span (days), years_span = span / 365.25 and
\* records_per_year = non_null_count / years_span in float arithmetic:
\* x / 0 is inf for x > 0, 0 / 0 and anything with NaN is NaN. A finite value
\* is 365.25 * num / den; the ratio is kept exact and the constant factor,
\* which no comparison of two values depends on, is left out of it.
RecordsPerYear(non_null_count, span) ==
    IF span = NA THEN [kind |-> "nan", num |-> 0, den |-> 0]
    ELSE IF span[1] = 0
         THEN (IF non_null_count = 0 THEN [kind |-> "nan", num |-> 0, den |-> 0]
               ELSE [kind |-> "inf", num |-> 0, den |-> 0])
         ELSE [kind |-> "num", num |-> non_null_count, den |-> span[1]]

\* lines 29-39: one row of cvg_stats, for the group G of rows with CVG k
StatsRow(rows, G, k) ==
    LET start == MinDate(rows, G)
        end   == MaxDate(rows, G)
        nn    == CountModal(rows, G)
        span  == IF start = NaT THEN NA ELSE <<end.f[1] - start.f[1]>>
    IN  [CVG |-> k, start_date |-> start, end_date |-> end,
         total_count |-> CountDate(rows, G), non_null_count |-> nn,
         span |-> span, records_per_year |-> RecordsPerYear(nn, span)]

\* lines 28-39: cvg_stats of one commodity, one row per CVG in ascending key order
StatsOfCommodity(rows, commodity) ==
    LET C    == {i \in 1..Len(rows) : rows[i].Commodity = commodity}
        keys == SortedKeys({rows[i].CVG : i \in C})
    IN  [j \in 1..Len(keys) |->
            StatsRow(rows, {i \in C : rows[i].CVG = keys[j]}, keys[j])]

\* line 41: pd.Timestamp.now() - pd.DateOffset(years=5); the day is clipped to the
\* month's length (29 February)
FiveYearsAgo(t) ==
    [days |-> DaysFromCivil(t.y - 5, t.m, Min2(t.d, DaysInMonth(t.y - 5, t.m))),
     tod  |-> t.tod]

\* line 43: end_date >= five_years_ago (a comparison with NaT is False)
Recent(end_date, t) ==
    /\ end_date.kind = "Timestamp"
    /\ LET f == FiveYearsAgo(t)
       IN  end_date.f[1] > f.days \/ (end_date.f[1] = f.days /\ f.tod = 0)

MinRecords == 500

Eligible_norecency(s, t) == s.non_null_count >= MinRecords

\* lines 42-45: the eligibility filter
Eligible(s, t) == Recent(s.end_date, t) /\ s.non_null_count >= MinRecords

\* a > b on records_per_year values, NaN ordered after everything (na_position='last')
RpyGreater(a, b) ==
    CASE a.kind = "nan" -> FALSE
      [] b.kind = "nan" -> TRUE
      [] a.kind = "inf" -> b.kind # "inf"
      [] b.kind = "inf" -> FALSE
      [] OTHER -> a.num * b.den > b.num * a.den

Precedes_ascending(a, b) ==
    \/ a.non_null_count < b.non_null_count
    \/ /\ a.non_null_count = b.non_null_count
       /\ RpyGreater(b.records_per_year, a.records_per_year)

\* line 47: a sorts strictly before b under
\* sort_values(['non_null_count', 'records_per_year'], ascending=[False, False])
Precedes(a, b) ==
    \/ a.non_null_count > b.non_null_count
    \/ /\ a.non_null_count = b.non_null_count
       /\ RpyGreater(a.records_per_year, b.records_per_year)

RECURSIVE InsertSorted(_, _)
\* x placed before the first element it strictly precedes
InsertSorted(s, x) ==
    IF s = <<>> THEN <<x>>
    ELSE IF Precedes(x, s[1]) THEN <<x>> \o s
    ELSE <<s[1]>> \o InsertSorted(Tail(s), x)

RECURSIVE SortPrefix(_, _)
\* line 47: the multi-column sort is a stable lexsort: equal rows keep their order
SortPrefix(s, k) ==
    IF k = 0 THEN <<>> ELSE InsertSorted(SortPrefix(s, k - 1), s[k])

sort_values(s) == SortPrefix(s, Len(s))

head_all(s, n) == s

\* line 48: .head(n)
head(s, n) == SubSeq(s, 1, Min2(n, Len(s)))

\* lines 42-48: the keys one commodity adds to best_cvgs
BestOfCommodity(stats, n, t) ==
    LET kept == SelectSeq(stats, LAMBDA s : Eligible(s, t))
        top  == head(sort_values(kept), n)
    IN  [j \in 1..Len(top) |-> top[j].CVG]

RECURSIVE Flatten(_)
Flatten(ss) == IF ss = <<>> THEN <<>> ELSE ss[1] \o Flatten(Tail(ss))

\* select_best_cvgs(df, n): the frame df it leaves behind (its Date column is
\* overwritten), the cvg_stats frame of each commodity and the returned list
select_best_cvgs(df, n, t) ==
    LET rows  == ParseDateColumn(df.rows)
        comms == unique([i \in 1..Len(rows) |-> rows[i].Commodity])
        stats == [j \in 1..Len(comms) |-> StatsOfCommodity(rows, comms[j])]
    IN  [df        |-> [df EXCEPT !.rows = rows],
         cvg_stats |-> stats,
         best_cvgs |-> Flatten([j \in 1..Len(comms) |-> BestOfCommodity(stats[j], n, t)])]

(***************************************************************************)
(* process_data (lines 52-87).                                             *)
(***************************************************************************)
WeatherColumns == <<"YEAR", "MO", "DY", "T2M">>

\* main, line 118: pd.read_csv(weather_file)
read_weather(file) == Frame(WeatherColumns, file)

\* lines 54 and 57: the rows of the selected CVG, their Date parsed (a copy)
SelectedRows(commodity_df, selected_cvg) ==
    LET picked == SelectSeq(commodity_df.rows, LAMBDA r : r.CVG = selected_cvg)
    IN  [i \in 1..Len(picked) |->
            [Date |-> parse_mixed_dates(picked[i].Date), Modal |-> picked[i].Modal,
             Arrivals |-> picked[i].Arrivals, reps |-> picked[i].reps]]

\* lines 60-64: pd.to_datetime of the year/month/day columns raises on a
\* combination that is no calendar date
WeatherDatesValid(rows) ==
    \A i \in 1..Len(rows) : ValidDate(rows[i].YEAR, rows[i].MO, rows[i].DY)

\* lines 60-66: the Date column is added, YEAR, MO and DY are dropped and -999
\* becomes pd.NA, all in place
NormalizedWeather(weather_df) ==
    Frame(<<"T2M", "Date">>,
          [i \in 1..Len(weather_df.rows) |->
              LET r == weather_df.rows[i]
              IN  [T2M  |-> IF r.T2M = <<-999>> THEN NA ELSE r.T2M,
                   Date |-> Timestamp(DaysFromCivil(r.YEAR, r.MO, r.DY))]])

\* 'W-SUN': the week of a day ends on the first Sunday on or after it and is
\* labelled by that Sunday (day 3 since 1970-01-01 is a Sunday)
WeekLabel(d) == d + ((10 - (d % 7)) % 7)

\* 'MS': the month of a day is labelled by its first day
MonthLabel(d) ==
    LET c == CivilFromDays(d) IN DaysFromCivil(c[1], c[2], 1)

Label(freq, d) == IF freq = "W-SUN" THEN WeekLabel(d) ELSE MonthLabel(d)

NextLabel(freq, l) ==
    IF freq = "W-SUN" THEN l + 7
    ELSE LET c == CivilFromDays(l) IN l + DaysInMonth(c[1], c[2])

RECURSIVE Bins(_, _, _)
\* the labels of a resample: every window from the first to the last, the
\* empty ones between them too
Bins(freq, first, last) ==
    IF first > last THEN <<>>
    ELSE <<first>> \o Bins(freq, NextLabel(freq, first), last)

\* the days of the rows that carry a date (a resample drops the NaT rows)
DatedDays(rows) ==
    {rows[i].Date.f[1] : i \in {j \in 1..Len(rows) : rows[j].Date.kind = "Timestamp"}}

ResampleBins(freq, rows) ==
    LET D == DatedDays(rows)
    IN  IF D = {} THEN <<>>
        ELSE Bins(freq, Label(freq, CHOOSE d \in D : \A e \in D : d <= e),
                        Label(freq, CHOOSE d \in D : \A e \in D : d >= e))

RECURSIVE GCD(_, _)
GCD(a, b) == IF b = 0 THEN a ELSE GCD(b, a % b)

\* a mean as the exact ratio <<numerator, denominator>>, NaN over no value
Mean(sum, count) ==
    IF count = 0 THEN NA
    ELSE LET g == GCD(IF sum < 0 THEN -sum ELSE sum, count)
         IN  <<sum \div g, count \div g>>

InBin(rows, freq, l) ==
    {i \in 1..Len(rows) :
        rows[i].Date.kind = "Timestamp" /\ Label(freq, rows[i].Date.f[1]) = l}

\* lines 69-77: mean of Modal over the values present, sum of Arrivals with a
\* missing value as 0, one row per window
ResampleCommodity(freq, rows) ==
    LET bins == ResampleBins(freq, rows)
    IN  [b \in 1..Len(bins) |->
            LET I == InBin(rows, freq, bins[b])
                M == {i \in I : rows[i].Modal # NA}
                A == {i \in I : rows[i].Arrivals # NA}
            IN  [Date |-> Timestamp(bins[b]),
                 Modal |-> Mean(SumOver([i \in 1..Len(rows) |->
                                            IF rows[i].Modal = NA THEN 0
                                            ELSE rows[i].reps * rows[i].Modal[1]], M),
                                SumOver([i \in 1..Len(rows) |-> rows[i].reps], M)),
                 Arrivals |-> <<SumOver([i \in 1..Len(rows) |->
                                            IF rows[i].Arrivals = NA THEN 0
                                            ELSE rows[i].reps * rows[i].Arrivals[1]], A)>>]]

\* lines 80-81: the mean of the measurement over the values present
ResampleWeather(freq, rows) ==
    LET bins == ResampleBins(freq, rows)
    IN  [b \in 1..Len(bins) |->
            LET T == {i \in InBin(rows, freq, bins[b]) : rows[i].T2M # NA}
            IN  [Date |-> Timestamp(bins[b]),
                 T2M |-> Mean(SumOver([i \in 1..Len(rows) |->
                                          IF rows[i].T2M = NA THEN 0 ELSE rows[i].T2M[1]], T),
                              Cardinality(T))]]

MergedRow(l, right) ==
    LET hit == {j \in 1..Len(right) : right[j].Date = l.Date}
    IN  [Date |-> l.Date, Modal |-> l.Modal, Arrivals |-> l.Arrivals,
         T2M |-> IF hit = {} THEN NA ELSE right[CHOOSE j \in hit : TRUE].T2M]

merge_outer(left, right) ==
    LET extra == SelectSeq(right, LAMBDA r : \A i \in 1..Len(left) : left[i].Date # r.Date)
    IN  [i \in 1..Len(left) |-> MergedRow(left[i], right)]
            \o [i \in 1..Len(extra) |->
                   [Date |-> extra[i].Date, Modal |-> NA, Arrivals |-> NA,
                    T2M |-> extra[i].T2M]]

\* lines 84-85: pd.merge(left, right, on='Date', how='left'): the rows of left in
\* their order, the measurement of the right row of the same Date or missing
merge(left, right) == [i \in 1..Len(left) |-> MergedRow(left[i], right)]

OutputColumns == <<"Date", "Modal", "Arrivals", "T2M">>

NoTables == [weekly |-> NoFrame, monthly |-> NoFrame]

\* process_data(commodity_df, weather_df, selected_cvg): whether it raised, the
\* weather_df it leaves behind and the two tables it returns. undated_raises is
\* what the pandas build does when no selected row carries a date (no row at
\* all, or NaT in every row): the resample raises or gives an empty table.
process_data(commodity_df, weather_df, selected_cvg, undated_raises) ==
    LET df == SelectedRows(commodity_df, selected_cvg)
    IN  IF "YEAR" \notin Range(weather_df.cols)
        THEN \* line 61: KeyError
             [raised |-> TRUE, weather_df |-> weather_df, tables |-> NoTables]
        ELSE IF ~WeatherDatesValid(weather_df.rows)
        THEN \* line 60: ValueError
             [raised |-> TRUE, weather_df |-> weather_df, tables |-> NoTables]
        ELSE LET w == NormalizedWeather(weather_df)
             IN  IF DatedDays(df) = {} /\ undated_raises
                 THEN \* line 69
                      [raised |-> TRUE, weather_df |-> w, tables |-> NoTables]
                 ELSE [raised |-> FALSE, weather_df |-> w,
                       tables |->
                          [weekly  |-> Frame(OutputColumns,
                                             merge(ResampleCommodity("W-SUN", df),
                                                   ResampleWeather("W-SUN", w.rows))),
                           monthly |-> Frame(OutputColumns,
                                             merge(ResampleCommodity("MS", df),
                                                   ResampleWeather("MS", w.rows)))]]

(***************************************************************************)
(* The calls of the core and the state before any of them.                 *)
(***************************************************************************)
NoResult == [raised |-> FALSE, best_cvgs |-> <<>>, weekly |-> NoFrame, monthly |-> NoFrame]

NoCall == [op |-> "none", n |-> 0, key |-> None, result |-> NoResult]

InitSession ==
    [weekly_data |-> NoFrame, monthly_data |-> NoFrame, processed |-> FALSE,
     selected_cvg |-> None]

NoScreen ==
    [options |-> <<>>, selected |-> None, downloads |-> FALSE, file_key |-> None,
     error |-> FALSE]

(***************************************************************************)
(* SpecRank: select_best_cvgs called on a loaded commodity dataset.        *)
(***************************************************************************)
\* Date, Modal and the length of the run. The dates are 2024-03-10 in ISO text,
\* 2021-11-04 in day-first text, and 31-02-2024, which is no date in either format.
RankCells ==
    {<<DateText(2024, 3, 10), <<10>>, 500>>,
     <<DateText(2024, 3, 10), <<10>>, 250>>,
     <<DateText(4, 11, 2021), <<10>>, 250>>,
     <<DateText(31, 2, 2024), <<10>>, 250>>,
     <<DateText(2024, 3, 10), NA, 500>>}

RankRow(commodity, variety, c) ==
    [Commodity |-> <<commodity>>, Variety |-> <<variety>>, Grade |-> <<"g">>,
     Market |-> <<"m">>, Date |-> c[1], Modal |-> c[2], Arrivals |-> <<5>>,
     reps |-> c[3]]

\* The rows of the inputs: two series of commodity A that take every cell, and
\* one series of commodity B that has 500 or 250 records dated 2024-03-10.
RankRows ==
    {RankRow("A", v, c) : v \in {"x", "y"}, c \in RankCells}
        \cup {RankRow("B", "x", <<DateText(2024, 3, 10), <<10>>, r>>) : r \in {250, 500}}

\* 2026-11-04, at midnight and later in the day: 2021-11-04 is exactly five years back
Nows == {[y |-> 2026, m |-> 11, d |-> 4, tod |-> 0], [y |-> 2026, m |-> 11, d |-> 4, tod |-> 1]}

\* n: the default of line 21 and a value that truncates two series
TopNs == {1, 3}

InitRank ==
    /\ commodity_file \in SeqsUpTo(RankRows, MaxRuns)
    /\ weather_file = <<>>
    /\ commodity_data = read_commodity(commodity_file)
    /\ weather_data = NoFrame
    /\ session = InitSession
    /\ now \in Nows
    /\ cvg_stats = <<>>
    /\ call = NoCall
    /\ prev_call = NoCall
    /\ screen = NoScreen

\* best_cvgs = select_best_cvgs(df, n)
CallRank(n) ==
    /\ call.op = "none"
    /\ LET r == select_best_cvgs(commodity_data, n, now)
       IN  /\ commodity_data' = r.df
           /\ cvg_stats' = r.cvg_stats
           /\ call' = [op |-> "select_best_cvgs", n |-> n, key |-> None,
                       result |-> [NoResult EXCEPT !.best_cvgs = r.best_cvgs]]
    /\ prev_call' = call
    /\ UNCHANGED <<commodity_file, weather_file, weather_data, session, now, screen>>

NextRank == \E n \in TopNs : CallRank(n)

SpecRank == InitRank /\ [][NextRank]_vars

(***************************************************************************)
(* What the claims say of a series, read off the uploaded rows.            *)
(***************************************************************************)
Ranked == call.op = "select_best_cvgs"

Best == call.result.best_cvgs

FileCommodities == {commodity_file[i].Commodity : i \in 1..Len(commodity_file)}

\* the rows of the series with key k in commodity c
SeriesRows(c, k) ==
    {i \in 1..Len(commodity_file) :
        /\ commodity_file[i].Commodity = c
        /\ create_cvg_identifier(commodity_file[i]) = k}

FileKeys(c) ==
    {create_cvg_identifier(commodity_file[i]) :
        i \in {j \in 1..Len(commodity_file) : commodity_file[j].Commodity = c}}

Reps == [i \in 1..Len(commodity_file) |-> commodity_file[i].reps]

\* the number of rows of a series with Modal present
NonMissing(G) == SumOver(Reps, {i \in G : commodity_file[i].Modal # NA})

\* the days of the parsed dates of a series
ParsedDays(G) ==
    {parse_mixed_dates(commodity_file[i].Date).f[1] :
        i \in {j \in G : parse_mixed_dates(commodity_file[j].Date) # NaT}}

\* the latest parsed date is not older than five years before now
EndsRecently(G) ==
    \E d \in ParsedDays(G) :
        LET f == FiveYearsAgo(now) IN d > f.days \/ (d = f.days /\ f.tod = 0)

MeetsThresholds(G) == NonMissing(G) >= MinRecords /\ EndsRecently(G)

\* C1: every key select_best_cvgs returns is the key of a series with at least 500
\* rows with Modal present and a latest parsed Date no older than five years
\* before now
C1_OnlyEligibleReturned ==
    Ranked =>
        \A i \in 1..Len(Best) :
            \E c \in FileCommodities :
                /\ SeriesRows(c, Best[i]) # {}
                /\ MeetsThresholds(SeriesRows(c, Best[i]))

\* a call that returned a key and dropped a series that has 500 rows with Modal
\* present but ended more than five years ago
C1_Witness ==
    /\ Ranked
    /\ Best # <<>>
    /\ \E c \in FileCommodities : \E k \in FileKeys(c) :
          NonMissing(SeriesRows(c, k)) >= MinRecords /\ ~EndsRecently(SeriesRows(c, k))

(***************************************************************************)
(* C6: the shape of the returned list.                                     *)
(***************************************************************************)
FirstRow(c) ==
    CHOOSE i \in 1..Len(commodity_file) :
        /\ commodity_file[i].Commodity = c
        /\ \A j \in 1..(i - 1) : commodity_file[j].Commodity # c

\* the j-th commodity in the order commodities first appear in the input
CommodityAt(j) ==
    CHOOSE c \in FileCommodities :
        Cardinality({b \in FileCommodities : FirstRow(b) < FirstRow(c)}) = j - 1

NumCommodities == Cardinality(FileCommodities)

\* cut[j] .. cut[j+1] delimits the keys of the j-th commodity in the returned list
IsSplit(cut) ==
    /\ cut[1] = 0
    /\ cut[NumCommodities + 1] = Len(Best)
    /\ \A j \in 1..NumCommodities :
          LET c == CommodityAt(j)
          IN  /\ cut[j] <= cut[j + 1]
              /\ cut[j + 1] - cut[j] <= call.n
              /\ \A i \in (cut[j] + 1)..cut[j + 1] : SeriesRows(c, Best[i]) # {}
              /\ (\A k \in FileKeys(c) : ~MeetsThresholds(SeriesRows(c, k)))
                    => cut[j + 1] = cut[j]

\* C6: the returned list is, commodity by commodity in the order the commodities
\* first appear in the input, a list of at most top_n keys of that commodity; a
\* commodity with no eligible series contributes the empty list, without a fault
C6_PerCommodityLists ==
    Ranked =>
        /\ ~call.result.raised
        /\ \E cut \in [1..(NumCommodities + 1) -> 0..Len(Best)] : IsSplit(cut)

\* top_n = 1 cut a commodity with two eligible series short, after a commodity
\* that came first in the input and has no eligible series
C6_Witness ==
    /\ Ranked
    /\ call.n = 1
    /\ NumCommodities = 2
    /\ \A k \in FileKeys(CommodityAt(1)) : ~MeetsThresholds(SeriesRows(CommodityAt(1), k))
    /\ Cardinality({k \in FileKeys(CommodityAt(2)) :
                        MeetsThresholds(SeriesRows(CommodityAt(2), k))}) = 2
    /\ Len(Best) = 1

(***************************************************************************)
(* C2, C8: the order of the returned keys.                                 *)
(***************************************************************************)
\* the commodity of a returned key: in these inputs no field holds the
\* delimiter, so a key belongs to one commodity
KeyCommodity(k) == CHOOSE c \in FileCommodities : SeriesRows(c, k) # {}

SeriesOf(k) == SeriesRows(KeyCommodity(k), k)

SpanDays(G) ==
    LET D == ParsedDays(G)
    IN  IF D = {} THEN NA
        ELSE <<(CHOOSE d \in D : \A e \in D : d >= e) - (CHOOSE d \in D : \A e \in D : d <= e)>>

Density(G) == RecordsPerYear(NonMissing(G), SpanDays(G))

FirstRowOfSeries(G) == CHOOSE i \in G : \A j \in G : i <= j

SameCommodityPairs ==
    {p \in (1..Len(Best)) \X (1..Len(Best)) :
        p[1] < p[2] /\ KeyCommodity(Best[p[1]]) = KeyCommodity(Best[p[2]])}

DescendingOrTied(a, b) ==
    \/ NonMissing(a) > NonMissing(b)
    \/ NonMissing(a) = NonMissing(b) /\ ~RpyGreater(Density(b), Density(a))

Tied(a, b) ==
    /\ NonMissing(a) = NonMissing(b)
    /\ ~RpyGreater(Density(a), Density(b))
    /\ ~RpyGreater(Density(b), Density(a))

\* the keys of commodity c in a returned list
KeysOf(best, c) == SelectSeq(best, LAMBDA k : k \in FileKeys(c))

Swapped(file, i) ==
    [j \in 1..Len(file) |->
        IF j = i THEN file[i + 1] ELSE IF j = i + 1 THEN file[i] ELSE file[j]]

\* exchanging two neighbouring rows of the input (every shuffle is a chain of
\* these) leaves the list of every commodity as it is
ShuffleInvariant ==
    \A i \in 1..(Len(commodity_file) - 1) :
        LET other == select_best_cvgs(read_commodity(Swapped(commodity_file, i)),
                                      call.n, now).best_cvgs
        IN  \A c \in FileCommodities : KeysOf(other, c) = KeysOf(Best, c)

\* C2 as claimed: descending by (non_missing_count, records_per_year), ties in
\* the original row order of the input
C2_TiesInRowOrder ==
    Ranked =>
        \A p \in SameCommodityPairs :
            LET a == SeriesOf(Best[p[1]])
                b == SeriesOf(Best[p[2]])
            IN  /\ DescendingOrTied(a, b)
                /\ Tied(a, b) => FirstRowOfSeries(a) < FirstRowOfSeries(b)

\* C2 (amended): within a commodity the returned keys are in descending order of
\* non_missing_count, then of records_per_year; series that tie on both are in
\* ascending order of their key; exchanging input rows does not change a
\* commodity's list
C2_SortedTiesByKey ==
    Ranked =>
        /\ \A p \in SameCommodityPairs :
              LET a == SeriesOf(Best[p[1]])
                  b == SeriesOf(Best[p[2]])
              IN  /\ DescendingOrTied(a, b)
                  /\ Tied(a, b) => StrLess(Best[p[1]], Best[p[2]])
        /\ ShuffleInvariant

\* two series of one commodity tie on both sort keys and are returned in key
\* order although the input lists them the other way round
C2_Witness ==
    /\ Ranked
    /\ \E p \in SameCommodityPairs :
          /\ Tied(SeriesOf(Best[p[1]]), SeriesOf(Best[p[2]]))
          /\ FirstRowOfSeries(SeriesOf(Best[p[1]])) > FirstRowOfSeries(SeriesOf(Best[p[2]]))

\* C8: a series whose start_date equals its end_date is never returned ahead of a
\* series of its commodity with the same non_missing_count and a positive span
C8_ZeroSpanNotAhead ==
    Ranked =>
        \A p \in SameCommodityPairs :
            LET a == SeriesOf(Best[p[1]])
                b == SeriesOf(Best[p[2]])
            IN  ~ /\ NonMissing(a) = NonMissing(b)
                  /\ SpanDays(a) = <<0>>
                  /\ SpanDays(b) # NA /\ SpanDays(b) # <<0>>

(***************************************************************************)
(* C9: what the statistics count.                                          *)
(***************************************************************************)
Parseable(i) == parse_mixed_dates(commodity_file[i].Date) # NaT

StatsFrames == {j \in 1..Len(cvg_stats) : TRUE}

\* C9 as claimed: total_row_count and non_missing_count count only rows with a
\* parseable Date
C9_CountsOnlyParseable ==
    Ranked =>
        \A j \in StatsFrames : \A r \in 1..Len(cvg_stats[j]) :
            LET s == cvg_stats[j][r]
                G == SeriesRows(CommodityAt(j), s.CVG)
            IN  /\ s.total_count = SumOver(Reps, {i \in G : Parseable(i)})
                /\ s.non_null_count =
                      SumOver(Reps, {i \in G : Parseable(i) /\ commodity_file[i].Modal # NA})

\* C9 (amended): dates are parsed before anything is counted; total_row_count
\* counts the rows with a parseable Date, and non_missing_count counts every row
\* with Modal present, whether its Date parses or not
C9_ModalCountIgnoresDate ==
    Ranked =>
        /\ Len(cvg_stats) = NumCommodities
        /\ \A j \in StatsFrames : \A r \in 1..Len(cvg_stats[j]) :
              LET s == cvg_stats[j][r]
                  G == SeriesRows(CommodityAt(j), s.CVG)
              IN  /\ G # {}
                  /\ s.total_count = SumOver(Reps, {i \in G : Parseable(i)})
                  /\ s.non_null_count = NonMissing(G)

\* a returned series reaches 500 only with its rows of unparseable Date
C9_Witness ==
    /\ Ranked
    /\ \E i \in 1..Len(Best) :
          LET G == SeriesOf(Best[i])
          IN  SumOver(Reps, {g \in G : Parseable(g) /\ commodity_file[g].Modal # NA})
                  < MinRecords

(***************************************************************************)
(* SpecKey: main loads a commodity CSV of one row and attaches its CVG.    *)
(***************************************************************************)
KeyChars == {"a", "b", "_"}

KeyFields == SeqsUpTo(KeyChars, MaxFieldLen)

KeyRow(t) ==
    [Commodity |-> t[1], Variety |-> t[2], Grade |-> t[3], Market |-> t[4],
     Date |-> DateText(2024, 3, 10), Modal |-> <<10>>, Arrivals |-> <<5>>, reps |-> 1]

InitKey ==
    /\ \E t \in KeyFields \X KeyFields \X KeyFields \X KeyFields :
          commodity_file = <<KeyRow(t)>>
    /\ weather_file = <<>>
    /\ commodity_data = NoFrame
    /\ weather_data = NoFrame
    /\ session = InitSession
    /\ now \in {n \in Nows : n.tod = 0}
    /\ cvg_stats = <<>>
    /\ call = NoCall
    /\ prev_call = NoCall
    /\ screen = NoScreen

\* main, lines 113-115
LoadCommodity ==
    /\ commodity_data.isNone
    /\ commodity_data' = read_commodity(commodity_file)
    /\ UNCHANGED <<commodity_file, weather_file, weather_data, session, now,
                   cvg_stats, call, prev_call, screen>>

NextKey == LoadCommodity

SpecKey == InitKey /\ [][NextKey]_vars

RECURSIVE SplitOn(_, _)
\* the fields of the text s between the occurrences of the character delim
SplitOn(s, delim) ==
    IF \A i \in 1..Len(s) : s[i] # delim THEN <<s>>
    ELSE LET i == CHOOSE j \in 1..Len(s) : s[j] = delim /\ \A h \in 1..(j - 1) : s[h] # delim
         IN  <<SubSeq(s, 1, i - 1)>> \o SplitOn(SubSeq(s, i + 1, Len(s)), delim)

TupleOf(row) == <<row.Commodity, row.Variety, row.Grade, row.Market>>

DelimiterFree(t) == \A j \in 1..4 : \A i \in 1..Len(t[j]) : t[j][i] # "_"

CleanFields == {f \in KeyFields : \A i \in 1..Len(f) : f[i] # "_"}

\* C7: on four-tuples whose fields hold no "_", the key determines the tuple: no
\* other such tuple has the same key, and splitting the key on "_" gives the
\* tuple back
C7_KeyInjective ==
    ~commodity_data.isNone =>
        LET row == commodity_data.rows[1]
            t   == TupleOf(row)
        IN  DelimiterFree(t) =>
                /\ SplitOn(row.CVG, "_") = t
                /\ \A u \in CleanFields \X CleanFields \X CleanFields \X CleanFields :
                      u # t => create_cvg_identifier(KeyRow(u)) # row.CVG

\* a loaded row of delimiter-free fields, one of them empty and one not
C7_Witness ==
    /\ ~commodity_data.isNone
    /\ DelimiterFree(TupleOf(commodity_data.rows[1]))
    /\ commodity_data.rows[1].Variety = <<>>
    /\ commodity_data.rows[1].Grade # <<>>

(***************************************************************************)
(* SpecReshape: process_data called, and called again, on a loaded         *)
(* commodity dataset and a loaded weather dataset.                         *)
(***************************************************************************)
\* Series A_x_g_m on Sunday 2024-01-28 (ISO text), Tuesday 30-01-2024 (day-first
\* text), Tuesday 2024-03-12 with Modal missing, and 31-02-2024 (no date); one
\* row of series A_y_g_m.
ReshapeRows ==
    {RankRow("A", "x", <<DateText(2024, 1, 28), <<10>>, 1>>),
     RankRow("A", "x", <<DateText(30, 1, 2024), <<20>>, 1>>),
     RankRow("A", "x", <<DateText(2024, 3, 12), NA, 1>>),
     RankRow("A", "x", <<DateText(31, 2, 2024), <<10>>, 1>>),
     RankRow("A", "y", <<DateText(30, 1, 2024), <<10>>, 1>>)}

\* Weather on Monday 2024-01-29, on Tuesday 2024-01-30 with the sentinel, on
\* Saturday 2024-02-10, on Friday 2024-04-05, and on 2024-02-30 (no date).
WeatherRows ==
    {[YEAR |-> 2024, MO |-> 1, DY |-> 29, T2M |-> <<20>>],
     [YEAR |-> 2024, MO |-> 1, DY |-> 30, T2M |-> <<-999>>],
     [YEAR |-> 2024, MO |-> 2, DY |-> 10, T2M |-> <<25>>],
     [YEAR |-> 2024, MO |-> 4, DY |-> 5, T2M |-> <<30>>],
     [YEAR |-> 2024, MO |-> 2, DY |-> 30, T2M |-> <<20>>]}

ReshapeKeys == {create_cvg_identifier(r) : r \in ReshapeRows}

InitReshape ==
    /\ commodity_file \in SeqsUpTo(ReshapeRows, MaxRows)
    /\ weather_file \in SeqsUpTo(WeatherRows, MaxWeather) \ {<<>>}
    /\ commodity_data = read_commodity(commodity_file)
    /\ weather_data = read_weather(weather_file)
    /\ session = InitSession
    /\ now \in {n \in Nows : n.tod = 0}
    /\ cvg_stats = <<>>
    /\ call = NoCall
    /\ prev_call = NoCall
    /\ screen = NoScreen

\* what a call for key leaves behind, r being what process_data gave
Returned(key, r) ==
    /\ weather_data' = r.weather_df
    /\ call' = [op |-> "process_data", n |-> 0, key |-> key,
                result |-> [raised |-> r.raised, best_cvgs |-> <<>>,
                            weekly |-> r.tables.weekly, monthly |-> r.tables.monthly]]
    /\ prev_call' = call
    /\ UNCHANGED <<commodity_file, weather_file, commodity_data, session, now,
                   cvg_stats, screen>>

\* weekly_final, monthly_final = process_data(commodity_df, weather_df, key) on
\* the datasets as the calls before it left them
Reshape(key, undated_raises) ==
    Returned(key, process_data(commodity_data, weather_data, key, undated_raises))

CallReshape(key, undated_raises) ==
    /\ call.op = "none"
    /\ Reshape(key, undated_raises)

\* the same call a second time, with the same arguments
RepeatReshape(undated_raises) ==
    /\ call.op = "process_data"
    /\ prev_call.op = "none"
    /\ Reshape(call.key, undated_raises)

NextReshape ==
    \/ \E key \in ReshapeKeys : \E undated_raises \in BOOLEAN : CallReshape(key, undated_raises)
    \/ \E undated_raises \in BOOLEAN : RepeatReshape(undated_raises)

SpecReshape == InitReshape /\ [][NextReshape]_vars

(***************************************************************************)
(* C5: the two tables of a call that returned.                             *)
(***************************************************************************)
Reshaped == call.op = "process_data" /\ ~call.result.raised

\* the days of the parseable dates of the rows of the key in the uploaded file
KeyDays(key) ==
    {parse_mixed_dates(commodity_file[i].Date).f[1] :
        i \in {j \in 1..Len(commodity_file) :
                  /\ create_cvg_identifier(commodity_file[j]) = key
                  /\ parse_mixed_dates(commodity_file[j].Date) # NaT}}

IsLabel(freq, l) == IF freq = "W-SUN" THEN l % 7 = 3 ELSE CivilFromDays(l)[3] = 1

\* the windows of the commodity-side aggregation: every window from the one of
\* the earliest row of the key to the one of its latest row
CommodityWindows(freq, key) ==
    LET D == KeyDays(key)
    IN  IF D = {} THEN {}
        ELSE LET lo == CHOOSE d \in D : \A e \in D : d <= e
                 hi == CHOOSE d \in D : \A e \in D : d >= e
             IN  {l \in (lo - 31)..(hi + 31) :
                     /\ IsLabel(freq, l)
                     /\ \E d \in lo..hi : Label(freq, d) = l}

\* the rows of the weather file that fall in the window labelled l
WeatherIn(freq, l) ==
    {i \in 1..Len(weather_file) :
        Label(freq, DaysFromCivil(weather_file[i].YEAR, weather_file[i].MO,
                                  weather_file[i].DY)) = l}

TableOk(freq, table) ==
    /\ ~table.isNone
    /\ \A i \in 1..(Len(table.rows) - 1) :
          table.rows[i].Date.f[1] < table.rows[i + 1].Date.f[1]
    /\ {table.rows[i].Date.f[1] : i \in 1..Len(table.rows)}
          = CommodityWindows(freq, call.key)
    /\ \A i \in 1..Len(table.rows) :
          WeatherIn(freq, table.rows[i].Date.f[1]) = {} => table.rows[i].T2M = NA

\* C5: both returned tables have strictly ascending Date values and exactly one
\* row per window of the commodity-side aggregation; a window without weather
\* rows is kept with the measurement missing, and a window that only the
\* weather has adds no row
C5_TablesFollowCommodityWindows ==
    Reshaped =>
        /\ TableOk("W-SUN", call.result.weekly)
        /\ TableOk("MS", call.result.monthly)

\* a returned weekly table of several windows, one with a measurement and one
\* without, while the weather has a row in a window the commodity side lacks
C5_Witness ==
    /\ Reshaped
    /\ Len(call.result.weekly.rows) >= 2
    /\ \E i \in 1..Len(call.result.weekly.rows) : call.result.weekly.rows[i].T2M # NA
    /\ \E i \in 1..Len(call.result.weekly.rows) : call.result.weekly.rows[i].T2M = NA
    /\ \E i \in 1..Len(weather_file) :
          WeekLabel(DaysFromCivil(weather_file[i].YEAR, weather_file[i].MO,
                                  weather_file[i].DY))
              \notin CommodityWindows("W-SUN", call.key)

(***************************************************************************)
(* C3, C4: a call repeated, and what a call leaves of its arguments.       *)
(***************************************************************************)
\* C3: a call made twice in succession with the same arguments gives the second
\* time what it gave the first time
C3_SecondCallSameResult ==
    (call.op # "none" /\ prev_call.op = call.op /\ prev_call.n = call.n
        /\ prev_call.key = call.key)
        => call.result = prev_call.result

\* C4: after a call the commodity dataset and the weather dataset are what was
\* loaded from the files
C4_ArgumentsUnchanged ==
    call.op # "none" =>
        /\ commodity_data = read_commodity(commodity_file)
        /\ weather_data = read_weather(weather_file)

(***************************************************************************)
(* SpecApp: the reruns of main() on two uploaded files (lines 89-184).     *)
(***************************************************************************)
\* n of select_best_cvgs(df, n=3), which main leaves at its default
DefaultN == 3

\* Two series of 500 records, A_x_g_m on 2024-03-10 and A_y_g_m on 30-01-2024,
\* and a run of 250 records of A_y_g_m.
AppRows ==
    {RankRow("A", "x", <<DateText(2024, 3, 10), <<10>>, 500>>),
     RankRow("A", "y", <<DateText(30, 1, 2024), <<20>>, 500>>),
     RankRow("A", "y", <<DateText(2024, 3, 10), <<20>>, 250>>)}

InitApp ==
    /\ commodity_file \in SeqsUpTo(AppRows, MaxAppRows)
    /\ weather_file \in {<<w>> : w \in WeatherRows}
    /\ commodity_data = NoFrame
    /\ weather_data = NoFrame
    /\ session = InitSession
    /\ now \in {n \in Nows : n.tod = 1}
    /\ cvg_stats = <<>>
    /\ call = NoCall
    /\ prev_call = NoCall
    /\ screen = NoScreen

\* lines 132-140 and what follows them, p being what process_data gave for the
\* selected key
Process(options, selected, p) ==
    /\ weather_data' = p.weather_df
    /\ call' = [op |-> "process_data", n |-> 0, key |-> selected,
                result |-> [raised |-> p.raised, best_cvgs |-> <<>>,
                            weekly |-> p.tables.weekly,
                            monthly |-> p.tables.monthly]]
    /\ prev_call' = call
    /\ IF p.raised
       THEN \* line 132 has run, lines 138-140 have not; lines 182-184
            /\ session' = [session EXCEPT !.selected_cvg = selected]
            /\ screen' = [options |-> options, selected |-> selected,
                          downloads |-> FALSE, file_key |-> None,
                          error |-> TRUE]
       ELSE \* lines 132-140, then lines 143-180
            /\ session' = [weekly_data |-> p.tables.weekly,
                           monthly_data |-> p.tables.monthly,
                           processed |-> TRUE, selected_cvg |-> selected]
            /\ screen' = [options |-> options, selected |-> selected,
                          downloads |-> TRUE, file_key |-> selected,
                          error |-> FALSE]

\* lines 121-180, ranked being what select_best_cvgs gave on the commodity
\* dataset and wdf the weather dataset of the session
Select(choice, clicked, undated_raises, ranked, wdf) ==
    LET \* lines 124-128: None when there is no option
        selected == IF ranked.best_cvgs = <<>> THEN None ELSE choice
        \* line 131
        go       == clicked \/ (session.processed /\ session.selected_cvg # selected)
    IN  /\ IF ranked.best_cvgs = <<>> THEN choice = None
           ELSE choice \in Range(ranked.best_cvgs)
        /\ commodity_data' = ranked.df
        /\ cvg_stats' = ranked.cvg_stats
        /\ IF go
           THEN \* lines 132-140
                Process(ranked.best_cvgs, selected,
                        process_data(ranked.df, wdf, selected, undated_raises))
           ELSE \* lines 143-180 when something has been processed before
                /\ weather_data' = wdf
                /\ UNCHANGED <<call, prev_call, session>>
                /\ screen' = [options |-> ranked.best_cvgs, selected |-> selected,
                              downloads |-> session.processed,
                              file_key |-> IF session.processed THEN selected ELSE None,
                              error |-> FALSE]
        /\ UNCHANGED <<commodity_file, weather_file, now>>

\* One run of the script with both files uploaded: choice is the value of the
\* selectbox, clicked whether "Process Data" was pressed.
Main(choice, clicked, undated_raises) ==
    LET \* lines 113-118: the files are read once per session
        df0  == IF commodity_data.isNone THEN read_commodity(commodity_file)
                ELSE commodity_data
        wdf0 == IF weather_data.isNone THEN read_weather(weather_file)
                ELSE weather_data
    IN  Select(choice, clicked, undated_raises,
               select_best_cvgs(df0, DefaultN, now), wdf0)

AppChoices == {None} \cup {create_cvg_identifier(r) : r \in AppRows}

NextApp ==
    \E choice \in AppChoices : \E clicked \in BOOLEAN : \E undated_raises \in BOOLEAN :
        Main(choice, clicked, undated_raises)

SpecApp == InitApp /\ [][NextApp]_vars

\* the tables a processing of the uploaded files yields for the key k
ProcessedFor(k) ==
    process_data(select_best_cvgs(read_commodity(commodity_file), DefaultN, now).df,
                 read_weather(weather_file), k, FALSE).tables

StoredTablesAreFor(k) ==
    /\ session.weekly_data = ProcessedFor(k).weekly
    /\ session.monthly_data = ProcessedFor(k).monthly

\* C10: whenever the downloads and previews are shown for the selected key k,
\* the stored tables are those of a processing for k; and a processing attempt
\* that raised does not leave session_state.selected_cvg at a key other than
\* the one the stored tables were processed for
C10_DownloadsMatchSelection ==
    /\ screen.downloads => StoredTablesAreFor(screen.file_key)
    /\ (screen.error /\ session.processed) => StoredTablesAreFor(session.selected_cvg)

====
